---- MODULE Spec2Model ----
(***************************************************************************)
(* Model of the job-tracker backend (backend/main.py): the credential      *)
(* store with its in-memory fallback, the email -> user_id mapping, the    *)
(* JWT session tokens, the HTTP handlers and the keyword classifier.       *)
(*                                                                         *)
(* Every handler is an `async def` without a single `await`, so on the one *)
(* event loop of the process a handler runs to completion before the next  *)
(* starts: each handler is one atomic action.  Every call to the row store *)
(* (supabase ... .execute()) either succeeds or raises; the outcome is an  *)
(* input of the action.                                                    *)
(***************************************************************************)
EXTENDS Integers, Sequences, FiniteSets, TLC

VARIABLES
    db_user_tokens,   \* row-store table user_tokens: user_id -> token_data (JSON text) or None
    db_user_emails,   \* row-store table user_emails: set of rows [user_id, email]
    user_tokens,      \* the process-wide in-memory fallback dict
    now,              \* the clock, in ticks of 1/TicksPerSecond second
    next_id,          \* number of identifiers drawn from secrets.token_urlsafe so far
    cookie,           \* the browser's user_token cookie (a token or None)
    held,             \* the client's copy of the last session token it was given
    held_issue,       \* what `held` was issued for: [at, user_id, email]
    last_saved,       \* per user_id, the token_data of the most recent save_user_token_db
    issued_for,       \* per email, the user_ids that auth_callback has used for it
    response,         \* the response of the last handled request
    cls               \* the last classifier call: inputs, result, and the result of the
                      \* previous call with the same inputs

vars == <<db_user_tokens, db_user_emails, user_tokens, now, next_id,
          cookie, held, held_issue, last_saved, issued_for, response, cls>>

-----------------------------------------------------------------------------
(* Bounds of the model *)

MaxIds == 2          \* identifiers that secrets.token_urlsafe is asked for
MaxTicks == 3        \* small clock steps taken before and after the long jump
NumBundles == 2      \* distinct credential bundles the OAuth exchange hands out
MaxMailbox == 2      \* messages of a mailbox whose messages vary one by one
MaxOver == 2         \* messages a long mailbox holds beyond the listing cap

(* Program constants *)

JWT_EXPIRATION_HOURS == 168
SecondsPerHour == 3600
TicksPerSecond == 2

TTLSeconds == JWT_EXPIRATION_HOURS * SecondsPerHour
JumpTicks == TTLSeconds * TicksPerSecond - 1

None == [none |-> TRUE]
NoUserId == "None"

Emails == {"ann@acme.com", "bob@corp.io"}
UserIds == {"u" \o ToString(n) : n \in 1..MaxIds}
Bundles == {[token |-> "at" \o ToString(n), refresh_token |-> "rt"] : n \in 1..NumBundles}

-----------------------------------------------------------------------------
(* Credential store *)

json_dumps(token_data) == [json |-> token_data]
json_loads(text) == text.json

\* save_user_token_db without its except branch: the failure of the upsert
\* reaches the caller and nothing is kept.
save_user_token_db_no_fallback(db, mem, user_id, token_data, ok) ==
    IF ok
    THEN [db |-> [db EXCEPT ![user_id] = json_dumps(token_data)], mem |-> mem, raised |-> FALSE]
    ELSE [db |-> db, mem |-> mem, raised |-> TRUE]

\* The tables and the dict after save_user_token_db(user_id, token_data);
\* ok = the upsert did not raise.
save_user_token_db(db, mem, user_id, token_data, ok) ==
    IF ok
    THEN [db |-> [db EXCEPT ![user_id] = json_dumps(token_data)], mem |-> mem, raised |-> FALSE]
    ELSE [db |-> db, mem |-> [mem EXCEPT ![user_id] = token_data], raised |-> FALSE]

\* The value returned by get_user_token_db(user_id); ok = the select did not raise.
get_user_token_db(db, mem, user_id, ok) ==
    IF ok /\ db[user_id] # None
    THEN [value |-> json_loads(db[user_id]), raised |-> FALSE]
    ELSE [value |-> mem[user_id], raised |-> FALSE]

-----------------------------------------------------------------------------
(* Identity mapping *)

\* user_emails after save_user_email_mapping: an upsert on the row's key, user_id;
\* a failure is logged and nothing is written anywhere.
save_user_email_mapping(rows, user_id, email, ok) ==
    IF ok
    THEN {r \in rows : r.user_id # user_id} \cup {[user_id |-> user_id, email |-> email]}
    ELSE rows

\* The values get_user_id_by_email can return: result.data[0] of a select without
\* ORDER BY is any matching row; None when there is none or the select raised.
get_user_id_by_email(rows, email, ok) ==
    IF ok /\ \E r \in rows : r.email = email
    THEN {r.user_id : r \in {q \in rows : q.email = email}}
    ELSE {NoUserId}

token_urlsafe(n) == "u" \o ToString(n + 1)

-----------------------------------------------------------------------------
(* Session tokens *)

\* datetime -> NumericDate, as jwt.encode and jwt.decode do it: whole seconds.
timegm(t) == t \div TicksPerSecond

\* create_user_token with timedelta(minutes=...) in place of timedelta(hours=...).
create_user_token_minutes(user_id, email, t) ==
    [user_id |-> user_id, email |-> email,
     exp |-> timegm(t + JWT_EXPIRATION_HOURS * 60 * TicksPerSecond),
     sig |-> "valid"]

create_user_token(user_id, email, t) ==
    [user_id |-> user_id, email |-> email,
     exp |-> timegm(t + JWT_EXPIRATION_HOURS * SecondsPerHour * TicksPerSecond),
     sig |-> "valid"]

Malformed == [malformed |-> TRUE]

\* jwt.decode compares exp with the current whole second; PyJWT from 2.6 on
\* rejects the token in the very second exp (strict), older releases only after it.
jwt_expired(exp, t, strict) ==
    IF strict THEN exp <= timegm(t) ELSE exp < timegm(t)

\* verify_user_token without `except jwt.ExpiredSignatureError` and with
\* `except jwt.DecodeError` only: an expired token or a bad signature raises.
verify_user_token_uncaught(token, t, strict) ==
    IF token = Malformed THEN [payload |-> None, raised |-> FALSE]
    ELSE IF token.sig # "valid" THEN [payload |-> None, raised |-> TRUE]
    ELSE IF jwt_expired(token.exp, t, strict) THEN [payload |-> None, raised |-> TRUE]
    ELSE [payload |-> [user_id |-> token.user_id, email |-> token.email, exp |-> token.exp],
          raised |-> FALSE]

\* jwt.decode raises DecodeError, InvalidSignatureError (both InvalidTokenErrors)
\* or ExpiredSignatureError; verify_user_token catches them and returns None.
verify_user_token(token, t, strict) ==
    IF token = Malformed THEN [payload |-> None, raised |-> FALSE]
    ELSE IF token.sig # "valid" THEN [payload |-> None, raised |-> FALSE]
    ELSE IF jwt_expired(token.exp, t, strict) THEN [payload |-> None, raised |-> FALSE]
    ELSE [payload |-> [user_id |-> token.user_id, email |-> token.email, exp |-> token.exp],
          raised |-> FALSE]

\* A request carries a cookie and an Authorization header; the header is
\* modelled by its scheme and its credentials.
get_current_user(request, t, strict) ==
    LET token == IF request.cookie # None THEN request.cookie
                 ELSE IF request.auth # None /\ request.auth.scheme = "Bearer"
                      THEN request.auth.credentials
                      ELSE None
    IN IF token # None THEN verify_user_token(token, t, strict)
       ELSE [payload |-> None, raised |-> FALSE]

-----------------------------------------------------------------------------
(* Email classifier *)

\* The dict literal, in insertion order (the order .items() iterates in).
CATEGORY_KEYWORDS ==
    << [category |-> "applications_sent",
        keywords |-> <<"application submitted", "application received",
                       "thank you for applying", "application confirmation",
                       "we received your application", "application status">>],
       [category |-> "rejected",
        keywords |-> <<"unfortunately", "regret to inform", "not moving forward",
                       "not selected", "other candidates", "position filled",
                       "rejection", "decline">>],
       [category |-> "interview_scheduled",
        keywords |-> <<"interview", "schedule", "meeting", "call", "discussion",
                       "next steps", "interview invitation", "interview request">>],
       [category |-> "offer_received",
        keywords |-> <<"offer", "congratulations", "welcome", "job offer",
                       "employment offer", "we're excited to offer", "offer letter">>] >>

UpperCase ==
    {"A", "B", "C", "D", "E", "F", "G", "H", "I", "J", "K", "L", "M",
     "N", "O", "P", "Q", "R", "S", "T", "U", "V", "W", "X", "Y", "Z"}

LowerCase ==
    {"a", "b", "c", "d", "e", "f", "g", "h", "i", "j", "k", "l", "m",
     "n", "o", "p", "q", "r", "s", "t", "u", "v", "w", "x", "y", "z"}

\* str.lower() on one character.
lower_char(c) ==
    IF c \notin UpperCase THEN c ELSE
    CASE c = "A" -> "a" [] c = "B" -> "b" [] c = "C" -> "c" [] c = "D" -> "d"
      [] c = "E" -> "e" [] c = "F" -> "f" [] c = "G" -> "g" [] c = "H" -> "h"
      [] c = "I" -> "i" [] c = "J" -> "j" [] c = "K" -> "k" [] c = "L" -> "l"
      [] c = "M" -> "m" [] c = "N" -> "n" [] c = "O" -> "o" [] c = "P" -> "p"
      [] c = "Q" -> "q" [] c = "R" -> "r" [] c = "S" -> "s" [] c = "T" -> "t"
      [] c = "U" -> "u" [] c = "V" -> "v" [] c = "W" -> "w" [] c = "X" -> "x"
      [] c = "Y" -> "y" [] c = "Z" -> "z" [] OTHER -> c

RECURSIVE lower(_)
lower(s) ==
    IF Len(s) = 0 THEN ""
    ELSE lower_char(SubSeq(s, 1, 1)) \o lower(SubSeq(s, 2, Len(s)))

\* Python's `keyword in content` on strings.
str_in(keyword, content) ==
    \E i \in 1..(Len(content) - Len(keyword) + 1) :
        SubSeq(content, i, i + Len(keyword) - 1) = keyword

\* The two nested loops of categorize_email from category i, keyword j on.
RECURSIVE first_match(_, _, _, _)
first_match(table, content, i, j) ==
    IF i > Len(table) THEN "applications_sent"
    ELSE IF j > Len(table[i].keywords) THEN first_match(table, content, i + 1, 1)
    ELSE IF str_in(lower(table[i].keywords[j]), content) THEN table[i].category
    ELSE first_match(table, content, i, j + 1)

\* categorize_email over a one-shot iterator of the table: a call after the
\* first finds the iterator used up and falls through to the default.
categorize_email_exhausted(subject, snippet) ==
    IF cls.category # "none" THEN "applications_sent"
    ELSE first_match(CATEGORY_KEYWORDS, lower(subject \o " " \o snippet), 1, 1)

\* categorize_email that keeps looking after a match: the last matching category wins.
RECURSIVE last_match(_, _, _, _, _)
last_match(table, content, i, j, found) ==
    IF i > Len(table) THEN found
    ELSE IF j > Len(table[i].keywords) THEN last_match(table, content, i + 1, 1, found)
    ELSE last_match(table, content, i, j + 1,
                    IF str_in(lower(table[i].keywords[j]), content)
                    THEN table[i].category ELSE found)

categorize_email_last_match(subject, snippet) ==
    last_match(CATEGORY_KEYWORDS, lower(subject \o " " \o snippet), 1, 1, "applications_sent")

categorize_email(subject, snippet) ==
    first_match(CATEGORY_KEYWORDS, lower(subject \o " " \o snippet), 1, 1)

\* Subjects and snippets of the messages the model classifies.
Subjects ==
    {"", "Hello", "Application Received", "Interview Invitation", "Job Offer",
     "Unfortunately", "Recall notice", "Thank you for",
     "Application status: interview", "Your offer and next steps"}

Snippets ==
    {"", "nothing to see", "applying to Acme", "We regret to inform you",
     "Please schedule a CALL", "Congratulations and welcome",
     "we're excited to offer you the role", "position filled, congratulations anyway",
     "Application status update", "offer letter attached"}

-----------------------------------------------------------------------------
(* Company extraction *)

\* str.upper() on one character.
upper_char(c) ==
    IF c \notin LowerCase THEN c ELSE
    CASE c = "a" -> "A" [] c = "b" -> "B" [] c = "c" -> "C" [] c = "d" -> "D"
      [] c = "e" -> "E" [] c = "f" -> "F" [] c = "g" -> "G" [] c = "h" -> "H"
      [] c = "i" -> "I" [] c = "j" -> "J" [] c = "k" -> "K" [] c = "l" -> "L"
      [] c = "m" -> "M" [] c = "n" -> "N" [] c = "o" -> "O" [] c = "p" -> "P"
      [] c = "q" -> "Q" [] c = "r" -> "R" [] c = "s" -> "S" [] c = "t" -> "T"
      [] c = "u" -> "U" [] c = "v" -> "V" [] c = "w" -> "W" [] c = "x" -> "X"
      [] c = "y" -> "Y" [] c = "z" -> "Z" [] OTHER -> c

is_cased(c) == c \in UpperCase \/ c \in LowerCase

\* str.title(): a cased character is upper-cased after an uncased one (or at
\* the start) and lower-cased after a cased one.
RECURSIVE title_from(_, _)
title_from(s, after_cased) ==
    IF Len(s) = 0 THEN ""
    ELSE LET c == SubSeq(s, 1, 1)
         IN (IF after_cased THEN lower_char(c) ELSE upper_char(c))
                \o title_from(SubSeq(s, 2, Len(s)), is_cased(c))

title(s) == title_from(s, FALSE)

\* str.strip() for blanks.
RECURSIVE strip(_)
strip(s) ==
    IF Len(s) = 0 THEN ""
    ELSE IF SubSeq(s, 1, 1) = " " THEN strip(SubSeq(s, 2, Len(s)))
    ELSE IF SubSeq(s, Len(s), Len(s)) = " " THEN strip(SubSeq(s, 1, Len(s) - 1))
    ELSE s

\* The positions at which sep starts in s.
occurrences(sep, s) ==
    {i \in 1..(Len(s) - Len(sep) + 1) : SubSeq(s, i, i + Len(sep) - 1) = sep}

first_of(S) == CHOOSE i \in S : \A j \in S : i <= j

\* s.split(sep)[0] and the rest after the first sep (s.split(sep, 1)[1]).
split_head(s, sep) ==
    IF occurrences(sep, s) = {} THEN s
    ELSE SubSeq(s, 1, first_of(occurrences(sep, s)) - 1)

split_rest(s, sep) ==
    SubSeq(s, first_of(occurrences(sep, s)) + Len(sep), Len(s))

EXCLUDED_DOMAINS == {"gmail.com", "yahoo.com", "hotmail.com", "outlook.com"}

\* A company name, as opposed to None.
Company(name) == [value |-> name]

extract_company_name(from_email, subject) ==
    LET has_at == occurrences("@", from_email) # {}
        \* from_email.split('@')[1]
        domain == split_head(split_rest(from_email, "@"), "@")
    IN IF has_at /\ domain \notin EXCLUDED_DOMAINS
       THEN Company(title(split_head(domain, ".")))
       ELSE IF occurrences(" - ", subject) # {}
            THEN Company(strip(split_head(subject, " - ")))
            ELSE None

\* From headers and subjects of the messages the model extracts companies from.
FromHeaders ==
    {"Unknown", "careers@acme.com", "noreply@gmail.com", "x@yahoo.com",
     "jobs@my-co.io", "Bob <bob@gmail.com>", "HR@Outlook.com", "a@b@hotmail.com"}

CompanySubjects ==
    {"Application Received", "Acme Corp - Software Engineer", "Generic subject",
     "  Beta Ltd  - Dev - Lead", "No Subject"}

-----------------------------------------------------------------------------
(* Fetching and aggregating messages *)

MAX_LISTED == 50
DEFAULT_MAX_RESULTS == 100
DASHBOARD_MAX_RESULTS == 1000

Min(a, b) == IF a <= b THEN a ELSE b

\* A query parameter that is present; an absent one is None.
Param(v) == [value |-> v]

\* Python's truth value of an optional string: None and "" are false.
truthy(p) == p # None /\ p.value # ""

\* A message of the provider's mailbox: its Subject and From header values (the
\* defaults "No Subject" and "Unknown" standing for an absent header), its
\* snippet or body text, and what messages.get does for it: "none" answers
\* with the message, "no_payload" answers without a payload (KeyError at
\* msg['payload']), "http_error" raises HttpError.
Message(subject, from_email, snippet, fault) ==
    [subject |-> subject, from_email |-> from_email, snippet |-> snippet, fault |-> fault]

\* The dictionary built for one message.
email_record(id, msg) ==
    [id |-> id, subject |-> msg.subject, from_email |-> msg.from_email,
     snippet |-> msg.snippet,
     category |-> categorize_email(msg.subject, msg.snippet),
     company |-> extract_company_name(msg.from_email, msg.subject)]

NoFetch == [raised |-> FALSE, maxResults |-> 0, gets |-> 0, emails |-> << >>]

\* get_user_emails without the cap on maxResults.
get_user_emails_uncapped(mailbox, max_results) ==
    LET maxResults == max_results
        messages == SubSeq(mailbox, 1, Min(Len(mailbox), maxResults))
        bad == {i \in 1..Len(messages) : messages[i].fault # "none"}
    IN [raised |-> bad # {},
        maxResults |-> maxResults,
        gets |-> IF bad = {} THEN Len(messages) ELSE first_of(bad),
        emails |-> IF bad = {}
                   THEN [i \in 1..Len(messages) |-> email_record(i, messages[i])]
                   ELSE << >>]

\* get_user_emails: messages.list with maxResults = min(max_results, 50) answers
\* with the first maxResults messages of the mailbox (max_results >= 1); one
\* messages.get per listed message, in order; the first get that fails ends the
\* loop with an exception.  gets counts the messages.get calls made.
get_user_emails(mailbox, max_results) ==
    LET maxResults == Min(max_results, MAX_LISTED)
        messages == SubSeq(mailbox, 1, Min(Len(mailbox), maxResults))
        bad == {i \in 1..Len(messages) : messages[i].fault # "none"}
    IN [raised |-> bad # {},
        maxResults |-> maxResults,
        gets |-> IF bad = {} THEN Len(messages) ELSE first_of(bad),
        emails |-> IF bad = {}
                   THEN [i \in 1..Len(messages) |-> email_record(i, messages[i])]
                   ELSE << >>]

\* The two list comprehensions of GET /emails, comparing companies as written.
filter_emails_case_sensitive(emails, category, company) ==
    LET by_category(e) == e.category = category.value
        by_company(e) == truthy(e.company) /\ str_in(company.value, e.company.value)
        first == IF truthy(category) THEN SelectSeq(emails, by_category) ELSE emails
    IN IF truthy(company) THEN SelectSeq(first, by_company) ELSE first

\* The two list comprehensions of GET /emails.
filter_emails(emails, category, company) ==
    LET by_category(e) == e.category = category.value
        by_company(e) == truthy(e.company)
                         /\ str_in(lower(company.value), lower(e.company.value))
        first == IF truthy(category) THEN SelectSeq(emails, by_category) ELSE emails
    IN IF truthy(company) THEN SelectSeq(first, by_company) ELSE first

\* categories[category] = categories.get(category, 0) + 1 over the emails: a
\* dictionary holding the categories that occur.
count_categories(emails) ==
    [c \in {emails[i].category : i \in 1..Len(emails)} |->
        Cardinality({i \in 1..Len(emails) : emails[i].category = c})]

\* categories.get(category, 0)
dict_get(categories, category) ==
    IF category \in DOMAIN categories THEN categories[category] ELSE 0

\* The statistics with the total taken from the dictionary's size.
dashboard_stats_total_of_keys(emails) ==
    LET categories == count_categories(emails)
    IN [total_applications |-> Cardinality(DOMAIN categories),
        applications_sent |-> dict_get(categories, "applications_sent"),
        rejected |-> dict_get(categories, "rejected"),
        interview_scheduled |-> dict_get(categories, "interview_scheduled"),
        offer_received |-> dict_get(categories, "offer_received"),
        categories |-> categories]

\* The statistics GET /dashboard/stats builds from the emails.
dashboard_stats(emails) ==
    LET categories == count_categories(emails)
    IN [total_applications |-> Len(emails),
        applications_sent |-> dict_get(categories, "applications_sent"),
        rejected |-> dict_get(categories, "rejected"),
        interview_scheduled |-> dict_get(categories, "interview_scheduled"),
        offer_received |-> dict_get(categories, "offer_received"),
        categories |-> categories]

\* demo_data's statistics over emails: the same computation.
generate_demo_stats(emails) ==
    LET categories == count_categories(emails)
    IN [total_applications |-> Len(emails),
        applications_sent |-> dict_get(categories, "applications_sent"),
        rejected |-> dict_get(categories, "rejected"),
        interview_scheduled |-> dict_get(categories, "interview_scheduled"),
        offer_received |-> dict_get(categories, "offer_received"),
        categories |-> categories]

-----------------------------------------------------------------------------
(* Requests a client can send *)

\* Any altered byte breaks the signature, whatever the altered payload says.
Tampered(token) ==
    IF token = None THEN {}
    ELSE {[token EXCEPT !.sig = "invalid"],
          [token EXCEPT !.sig = "invalid", !.exp = token.exp + TTLSeconds]}

PresentableTokens == ({cookie, held} \ {None}) \cup Tampered(held) \cup {Malformed}

Requests ==
    {[cookie |-> c, auth |-> None] : c \in PresentableTokens \cup {None}}
    \cup {[cookie |-> None, auth |-> [scheme |-> "Bearer", credentials |-> c]] :
             c \in PresentableTokens \cup {None}}
    \cup {[cookie |-> None, auth |-> [scheme |-> "Basic", credentials |-> c]] :
             c \in {held} \ {None}}
    \cup {[cookie |-> Malformed, auth |-> [scheme |-> "Bearer", credentials |-> c]] :
             c \in {held} \ {None}}

\* The browser's own requests: its cookie, if it has one.
BrowserRequests == {[cookie |-> cookie, auth |-> None]}

ProviderOutcomes == {"ok", "service_error", "http_error"}

DataOps == {"get_emails", "get_email_detail", "get_dashboard_stats"}

-----------------------------------------------------------------------------
(* Handlers *)

PlainMessage == Message("Application Submitted", "Unknown", "", "none")

\* No message received yet.  category and prev are "none" until the classifier has
\* run once, respectively twice, on the message; ids and prev_ids are the values of
\* next_id at those two calls.
NoCall == [subject |-> "", snippet |-> "", received |-> FALSE,
           category |-> "none", prev |-> "none", ids |-> 0, prev_ids |-> 0]

Init ==
    /\ db_user_tokens = [u \in UserIds |-> None]
    /\ db_user_emails = {}
    /\ user_tokens = [u \in UserIds |-> None]
    /\ now = 0
    /\ next_id = 0
    /\ cookie = None
    /\ held = None
    /\ held_issue = None
    /\ last_saved = [u \in UserIds |-> None]
    /\ issued_for = [e \in Emails |-> {}]
    /\ response = [op |-> "none"]
    /\ cls = NoCall

\* A call the callback makes, with the user_id it hands over.
Step(call, user_id) == [call |-> call, user_id |-> user_id]

\* GET /auth/callback.  steps lists the calls made after the identity is
\* resolved, in program order.  exchange_ok: flow.fetch_token and getProfile succeeded;
\* ok_lookup, ok_token, ok_mapping: the three row-store calls did not raise.
auth_callback(user_email, credentials, exchange_ok, ok_lookup, ok_token, ok_mapping) ==
    IF ~exchange_ok
    THEN /\ response' = [op |-> "auth_callback", status |-> 500, exchange_ok |-> FALSE,
                          steps |-> << >>]
         /\ UNCHANGED <<db_user_tokens, db_user_emails, user_tokens, now, next_id,
                        cookie, held, held_issue, last_saved, issued_for, cls>>
    ELSE \E existing_user_id \in get_user_id_by_email(db_user_emails, user_email, ok_lookup) :
          LET is_new == existing_user_id = NoUserId
              user_id == IF is_new THEN token_urlsafe(next_id) ELSE existing_user_id
              saved == save_user_token_db(db_user_tokens, user_tokens, user_id,
                                          credentials, ok_token)
              session_token == create_user_token(user_id, user_email, now)
          IN /\ is_new => next_id < MaxIds
             /\ next_id' = IF is_new THEN next_id + 1 ELSE next_id
             /\ db_user_tokens' = saved.db
             /\ user_tokens' = saved.mem
             /\ last_saved' = [last_saved EXCEPT ![user_id] = credentials]
             /\ issued_for' = [issued_for EXCEPT ![user_email] = @ \cup {user_id}]
             /\ IF saved.raised
                THEN /\ response' = [op |-> "auth_callback", status |-> 500,
                                     exchange_ok |-> TRUE, user_id |-> user_id,
                                     email |-> user_email, store_failed |-> ~ok_token,
                                     steps |-> <<Step("save_user_token_db", user_id)>>]
                     /\ UNCHANGED <<db_user_emails, cookie, held, held_issue>>
                ELSE /\ db_user_emails' = save_user_email_mapping(db_user_emails, user_id,
                                                                  user_email, ok_mapping)
                     /\ cookie' = session_token
                     /\ held' = session_token
                     /\ held_issue' = [at |-> now, user_id |-> user_id, email |-> user_email]
                     /\ response' = [op |-> "auth_callback", status |-> 307,
                                     exchange_ok |-> TRUE, user_id |-> user_id,
                                     email |-> user_email, store_failed |-> ~ok_token,
                                     steps |-> <<Step("save_user_token_db", user_id),
                                                 Step("save_user_email_mapping", user_id),
                                                 Step("create_user_token", user_id),
                                                 Step("RedirectResponse", user_id),
                                                 Step("set_cookie", session_token.user_id)>>]
             /\ UNCHANGED <<now, cls>>

\* The part the three data endpoints share: load the bundle, 401 without one,
\* otherwise build the provider client and call the provider; every exception
\* of that second part becomes a 500.  The handlers take user_id from the query
\* string and never look at the request's cookie or Authorization header; the
\* response record keeps the request only to say what the client had sent.
\* call is what the client and the mailbox put into the request; result is what
\* the handler's own part makes of the provider's answers: whether it raised,
\* the fetch it made and the body it returns.
data_endpoint(op, user_id, request, ok_load, provider, call, result) ==
    LET loaded == get_user_token_db(db_user_tokens, user_tokens, user_id, ok_load)
        token_data == loaded.value
        fetched == ~loaded.raised /\ token_data # None /\ provider # "service_error"
        status == IF loaded.raised THEN 500
                  ELSE IF token_data = None THEN 401
                  ELSE IF provider = "ok" /\ ~result.raised THEN 200 ELSE 500
        answered == fetched /\ provider = "ok"
    IN /\ response' = [op |-> op, status |-> status, user_id |-> user_id,
                       token_data |-> token_data, fetched |-> fetched,
                       store_failed |-> ~ok_load, load_raised |-> loaded.raised,
                       request |-> request, call |-> call, answered |-> answered,
                       fetch |-> IF answered THEN result.fetch ELSE NoFetch,
                       body |-> IF status = 200 THEN result.body ELSE None]
       /\ UNCHANGED <<db_user_tokens, db_user_emails, user_tokens, now, next_id,
                      cookie, held, held_issue, last_saved, issued_for, cls>>

\* GET /emails
get_emails(user_id, request, ok_load, provider, mailbox, max_results, category, company) ==
    LET fetch == get_user_emails(mailbox, max_results)
    IN data_endpoint("get_emails", user_id, request, ok_load, provider,
                     [mailbox |-> mailbox, max_results |-> max_results,
                      category |-> category, company |-> company],
                     [raised |-> fetch.raised, fetch |-> fetch,
                      body |-> [emails |-> filter_emails(fetch.emails, category, company)]])

\* GET /emails/{email_id}: one messages.get, then the same classification.
get_email_detail(user_id, request, ok_load, provider, email_id, message) ==
    LET raised == message.fault # "none"
    IN data_endpoint("get_email_detail", user_id, request, ok_load, provider,
                     [email_id |-> email_id, message |-> message],
                     [raised |-> raised,
                      fetch |-> [NoFetch EXCEPT !.raised = raised, !.gets = 1],
                      body |-> email_record(email_id, message)])

\* GET /dashboard/stats
get_dashboard_stats(user_id, request, ok_load, provider, mailbox) ==
    LET fetch == get_user_emails(mailbox, DASHBOARD_MAX_RESULTS)
    IN data_endpoint("get_dashboard_stats", user_id, request, ok_load, provider,
                     [mailbox |-> mailbox, max_results |-> DASHBOARD_MAX_RESULTS],
                     [raised |-> fetch.raised, fetch |-> fetch,
                      body |-> dashboard_stats(fetch.emails)])

\* GET /auth/session
check_session(request, strict) ==
    LET user == get_current_user(request, now, strict)
        sent == [request |-> request, at |-> now, strict |-> strict]
    IN /\ response' =
            IF user.raised THEN [op |-> "check_session", status |-> 500, sent |-> sent]
            ELSE IF user.payload # None
            THEN [op |-> "check_session", status |-> 200, sent |-> sent,
                  authenticated |-> TRUE, user_id |-> user.payload.user_id,
                  email |-> user.payload.email]
            ELSE [op |-> "check_session", status |-> 200, sent |-> sent,
                  authenticated |-> FALSE]
       /\ UNCHANGED <<db_user_tokens, db_user_emails, user_tokens, now, next_id,
                      cookie, held, held_issue, last_saved, issued_for, cls>>

\* /auth/logout that also deletes the stored bundles.
logout_revoking ==
    /\ cookie' = None
    /\ db_user_tokens' = [u \in UserIds |-> None]
    /\ response' = [op |-> "logout", status |-> 200]
    /\ UNCHANGED <<db_user_emails, user_tokens, now, next_id,
                   held, held_issue, last_saved, issued_for, cls>>

\* GET /auth/logout: the response tells the browser to drop the cookie.
logout ==
    /\ cookie' = None
    /\ response' = [op |-> "logout", status |-> 200]
    /\ UNCHANGED <<db_user_tokens, db_user_emails, user_tokens, now, next_id,
                   held, held_issue, last_saved, issued_for, cls>>

\* Time passes: one tick, or (once) the long jump to one tick before the TTL.
Tick ==
    /\ now % JumpTicks < MaxTicks
    /\ now' = now + 1
    /\ UNCHANGED <<db_user_tokens, db_user_emails, user_tokens, next_id,
                   cookie, held, held_issue, last_saved, issued_for, response, cls>>

Jump ==
    /\ now < JumpTicks
    /\ now' = now + JumpTicks
    /\ UNCHANGED <<db_user_tokens, db_user_emails, user_tokens, next_id,
                   cookie, held, held_issue, last_saved, issued_for, response, cls>>

\* A message (subject, snippet) comes up for classification.
receive(subject, snippet) ==
    /\ cls' = [NoCall EXCEPT !.subject = subject, !.snippet = snippet, !.received = TRUE]
    /\ UNCHANGED <<db_user_tokens, db_user_emails, user_tokens, now, next_id, cookie,
                   held, held_issue, last_saved, issued_for, response>>

\* categorize_email is called on the message, a first or a further time.
classify ==
    /\ cls.received
    /\ cls' = [cls EXCEPT !.category = categorize_email(cls.subject, cls.snippet),
                          !.prev = cls.category,
                          !.ids = next_id,
                          !.prev_ids = cls.ids]
    /\ UNCHANGED <<db_user_tokens, db_user_emails, user_tokens, now, next_id, cookie,
                   held, held_issue, last_saved, issued_for, response>>

-----------------------------------------------------------------------------
(* Spec: the credential store and the data endpoints.  The user_tokens     *)
(* table fails at will; the user_emails table answers, so that each email   *)
(* keeps one user_id and the store is exercised key by key.                 *)

AuthCallback ==
    \E e \in Emails, c \in Bundles, x, t \in BOOLEAN : auth_callback(e, c, x, TRUE, t, TRUE)

GetEmails ==
    \E u \in UserIds, r \in BrowserRequests, ok \in BOOLEAN, p \in ProviderOutcomes :
        get_emails(u, r, ok, p, << >>, DEFAULT_MAX_RESULTS, None, None)

GetEmailDetail ==
    \E u \in UserIds, r \in BrowserRequests, ok \in BOOLEAN, p \in ProviderOutcomes :
        get_email_detail(u, r, ok, p, 1, PlainMessage)

GetDashboardStats ==
    \E u \in UserIds, r \in BrowserRequests, ok \in BOOLEAN, p \in ProviderOutcomes :
        get_dashboard_stats(u, r, ok, p, << >>)

Logout == logout

Next ==
    \/ AuthCallback
    \/ GetEmails
    \/ GetEmailDetail
    \/ GetDashboardStats
    \/ Logout

Spec == Init /\ [][Next]_vars

-----------------------------------------------------------------------------
(* SpecIdentity: logins with every row-store call failing at will. *)

LoginAnyStore ==
    \E e \in Emails, c \in Bundles, x, l, t, m \in BOOLEAN : auth_callback(e, c, x, l, t, m)

NextIdentity == LoginAnyStore

SpecIdentity == Init /\ [][NextIdentity]_vars

-----------------------------------------------------------------------------
(* SpecSession: session tokens against the clock, with the row store up. *)

Login ==
    \E e \in Emails, c \in Bundles, x \in BOOLEAN : auth_callback(e, c, x, TRUE, TRUE, TRUE)

CheckSession == \E r \in Requests, strict \in BOOLEAN : check_session(r, strict)

LogoutSession == logout

NextSession ==
    \/ Login
    \/ CheckSession
    \/ LogoutSession
    \/ Tick
    \/ Jump

SpecSession == Init /\ [][NextSession]_vars

-----------------------------------------------------------------------------
(* SpecClassify: the classifier on messages, with logins and store writes *)
(* going on between its calls.                                            *)

Receive == \E subject \in Subjects, snippet \in Snippets : receive(subject, snippet)

Classify == classify

\* One account logging in again and again, its bundle going to the table or,
\* the table failing, to the in-memory dict.
LoginBetween ==
    \E c \in Bundles, t \in BOOLEAN : auth_callback("ann@acme.com", c, TRUE, TRUE, t, TRUE)

NextClassify ==
    \/ Receive
    \/ Classify
    \/ LoginBetween

SpecClassify == Init /\ [][NextClassify]_vars

-----------------------------------------------------------------------------
(* SpecFetch: the data endpoints on mailboxes, with the row store up.  A    *)
(* data endpoint changes nothing the server keeps, so a request is taken    *)
(* from the states a login leaves (or the initial one): a request that      *)
(* follows another one sees what that one saw.  The requests name the user  *)
(* the first login creates.                                                 *)

Faults == {"none", "no_payload", "http_error"}

SampleMessages ==
    {Message("Application Received", "careers@acme.com", "thank you for applying", "none"),
     Message("Update", "Bob <bob@gmail.com>", "we regret to inform you", "none"),
     Message("Acme Corp - Interview", "noreply@gmail.com", "", "none"),
     Message("Offer", "x@yahoo.com", "", "none"),
     Message("Broken", "jobs@my-co.io", "", "no_payload"),
     Message("Gone", "jobs@my-co.io", "", "http_error")}

SmallMailboxes == UNION {[1..n -> SampleMessages] : n \in 0..MaxMailbox}

CycleMessages ==
    <<Message("Application Received", "careers@acme.com", "thank you for applying", "none"),
      Message("Update", "Bob <bob@gmail.com>", "we regret to inform you", "none"),
      Message("Acme Corp - Interview", "noreply@gmail.com", "", "none"),
      Message("Offer", "x@yahoo.com", "", "none")>>

\* Mailboxes around the listing cap: n good messages, or n with a last one
\* that messages.get fails on.
LongMailbox(n) == [i \in 1..n |-> CycleMessages[((i - 1) % Len(CycleMessages)) + 1]]

LongMailboxBadTail(n) ==
    [LongMailbox(n) EXCEPT ![n] = Message("Gone", "jobs@my-co.io", "", "http_error")]

LongSizes == (MAX_LISTED - 1)..(MAX_LISTED + MaxOver)

LongMailboxes ==
    {LongMailbox(n) : n \in LongSizes} \cup {LongMailboxBadTail(n) : n \in LongSizes}

MaxResults ==
    {1, MaxMailbox, MAX_LISTED - 1, MAX_LISTED, MAX_LISTED + 1,
     DEFAULT_MAX_RESULTS, DASHBOARD_MAX_RESULTS}

CategoryParams == {None, Param(""), Param("rejected"), Param("spam")}

CompanyParams == {None, Param(""), Param("ACME"), Param("zeta")}

Fresh == response.op \notin DataOps

FetchUsers == {token_urlsafe(0)}

LoginFetch == \E c \in Bundles : auth_callback("ann@acme.com", c, TRUE, TRUE, TRUE, TRUE)

FetchEmails ==
    /\ Fresh
    /\ \E u \in FetchUsers, r \in BrowserRequests, m \in SmallMailboxes,
          n \in {1, DEFAULT_MAX_RESULTS}, cat \in CategoryParams, co \in CompanyParams :
            get_emails(u, r, TRUE, "ok", m, n, cat, co)

FetchCapped ==
    /\ Fresh
    /\ \E u \in FetchUsers, r \in BrowserRequests, p \in ProviderOutcomes,
          m \in LongMailboxes, n \in MaxResults :
            get_emails(u, r, TRUE, p, m, n, None, None)

FetchDetail ==
    /\ Fresh
    /\ \E u \in FetchUsers, r \in BrowserRequests, f \in FromHeaders,
          sub \in CompanySubjects, fault \in Faults :
            get_email_detail(u, r, TRUE, "ok", 1, Message(sub, f, "", fault))

FetchStats ==
    /\ Fresh
    /\ \E u \in FetchUsers, r \in BrowserRequests, p \in ProviderOutcomes,
          m \in SmallMailboxes \cup LongMailboxes :
            get_dashboard_stats(u, r, TRUE, p, m)

NextFetch ==
    \/ LoginFetch
    \/ FetchEmails
    \/ FetchCapped
    \/ FetchDetail
    \/ FetchStats

SpecFetch == Init /\ [][NextFetch]_vars

-----------------------------------------------------------------------------
(* Properties of the credential store and the data endpoints (Spec) *)

\* In Spec every step is a handler that writes `response`, and a data endpoint
\* changes nothing else: when response.op is a data endpoint, the stores are
\* those the request was answered from.

\* C1: a load returns the bundle of the most recent save for that user_id,
\* whatever the availability of the row store at the saves and at the load.
C1_LoadReturnsLastSave ==
    (response.op \in DataOps /\ last_saved[response.user_id] # None)
        => response.token_data = last_saved[response.user_id]

\* C2: a failing row store is not surfaced: a failed save does not fail the
\* callback and leaves the bundle in the in-memory map; a failed load does not
\* raise and answers what the in-memory map holds for the user_id.
C2_StoreFailureNotSurfaced ==
    /\ (response.op = "auth_callback" /\ response.exchange_ok /\ response.store_failed)
          => /\ response.status = 307
             /\ user_tokens[response.user_id] = last_saved[response.user_id]
    /\ (response.op \in DataOps /\ response.store_failed)
          => /\ ~response.load_raised
             /\ response.token_data = user_tokens[response.user_id]
             /\ (response.status = 401) = (response.token_data = None)

\* A load with the row store down that was answered with the bundle a save
\* with the row store down had left in memory.
C2_Witness ==
    /\ response.op \in DataOps
    /\ response.store_failed
    /\ response.token_data # None
    /\ db_user_tokens[response.user_id] = None

\* C5: a data endpoint calls the email provider only for a request whose
\* session token verifies.
C5_FetchOnlyWithValidSession ==
    (response.op \in DataOps /\ response.fetched)
        => \E strict \in BOOLEAN :
              get_current_user(response.request, now, strict).payload # None

\* C8: a data endpoint answers 401 exactly when the load yields no bundle, then
\* without calling the provider; with a bundle stored for the user_id the
\* answer is never 401.
C8_UnauthorizedIffNoBundle ==
    response.op \in DataOps
        => /\ (response.status = 401) = (response.token_data = None)
           /\ response.status = 401 => ~response.fetched
           /\ last_saved[response.user_id] # None => response.status # 401

-----------------------------------------------------------------------------
(* Properties of the identity mapping (SpecIdentity) *)

\* C3: a login with an email that already has a user_id returns that user_id:
\* after a successful callback the email has been given this one id only.
C3_SameEmailSameUserId ==
    (response.op = "auth_callback" /\ response.exchange_ok)
        => issued_for[response.email] = {response.user_id}

\* C4: at most one user_id has been issued for, and is mapped to, each email.
C4_OneUserIdPerEmail ==
    \A e \in Emails :
        /\ Cardinality(issued_for[e]) <= 1
        /\ Cardinality({r.user_id : r \in {q \in db_user_emails : q.email = e}}) <= 1

-----------------------------------------------------------------------------
(* Properties of the session tokens (SpecSession) *)

TTLTicks == TTLSeconds * TicksPerSecond

Identity(payload) ==
    IF payload = None THEN None ELSE [user_id |-> payload.user_id, email |-> payload.email]

\* C6 as stated: the token issued at t0 verifies to its user_id and email at
\* every time before t0 + 7 days and is invalid at every time from t0 + 7 days.
C6_ExpiryAtSevenDays ==
    held # None =>
        \A strict \in BOOLEAN :
            LET user == Identity(verify_user_token(held, now, strict).payload)
            IN /\ now < held_issue.at + TTLTicks
                    => user = [user_id |-> held_issue.user_id, email |-> held_issue.email]
               /\ now >= held_issue.at + TTLTicks => user = None

\* C6 amended: expiry is kept and compared in whole seconds.  The token verifies
\* to its user_id and email while the current second is before the second of
\* issue + 7 days, and is invalid once the current second is after it.
C6_ExpiryInWholeSeconds ==
    held # None =>
        \A strict \in BOOLEAN :
            LET user == Identity(verify_user_token(held, now, strict).payload)
                expiry == (held_issue.at \div TicksPerSecond) + TTLSeconds
            IN /\ (now \div TicksPerSecond) < expiry
                    => user = [user_id |-> held_issue.user_id, email |-> held_issue.email]
               /\ (now \div TicksPerSecond) > expiry => user = None

\* A token issued in the second half of a second, looked at after its expiry second.
C6_Witness ==
    /\ held # None
    /\ held_issue.at % TicksPerSecond # 0
    /\ (now \div TicksPerSecond) > (held_issue.at \div TicksPerSecond) + TTLSeconds

\* The token get_current_user takes from a request.
SentToken(request) ==
    IF request.cookie # None THEN request.cookie
    ELSE IF request.auth # None /\ request.auth.scheme = "Bearer"
         THEN request.auth.credentials
         ELSE None

\* Malformed, badly signed, or expired when the request was handled.
InvalidToken(token, at, strict) ==
    \/ token = Malformed
    \/ token # Malformed /\ token.sig # "valid"
    \/ token # Malformed /\ token.sig = "valid"
          /\ (IF strict THEN token.exp <= at \div TicksPerSecond
                        ELSE token.exp < at \div TicksPerSecond)

\* C7: verifying a malformed, badly signed or expired token returns None
\* without raising, and /auth/session answers such a request 200 with
\* authenticated = false and neither user_id nor email.
C7_InvalidTokenNotAuthenticated ==
    /\ \A token \in PresentableTokens, strict \in BOOLEAN :
          InvalidToken(token, now, strict)
              => verify_user_token(token, now, strict) = [payload |-> None, raised |-> FALSE]
    /\ (/\ response.op = "check_session"
        /\ SentToken(response.sent.request) # None
        /\ InvalidToken(SentToken(response.sent.request), response.sent.at,
                        response.sent.strict))
          => /\ response.status = 200
             /\ DOMAIN response = {"op", "status", "sent", "authenticated"}
             /\ response.authenticated = FALSE

\* /auth/session was asked with an expired, well-signed token.
C7_Witness ==
    /\ response.op = "check_session"
    /\ SentToken(response.sent.request) # None
    /\ SentToken(response.sent.request) # Malformed
    /\ SentToken(response.sent.request).sig = "valid"
    /\ SentToken(response.sent.request).exp < response.sent.at \div TicksPerSecond
    /\ response.status = 200

-----------------------------------------------------------------------------
(* Properties of the classifier (SpecClassify) *)

Priority == <<"applications_sent", "rejected", "interview_scheduled", "offer_received">>

KeywordsOf(category) ==
    UNION {{e.keywords[j] : j \in 1..Len(e.keywords)} :
              e \in {CATEGORY_KEYWORDS[i] : i \in {n \in 1..Len(CATEGORY_KEYWORDS) :
                                                      CATEGORY_KEYWORDS[n].category = category}}}

\* Some keyword of the category occurs in the text.
Occurs(category, text) == \E k \in KeywordsOf(category) : str_in(k, text)

\* The earliest category of Priority with a keyword in the text, the default without one.
EarliestCategory(text) ==
    IF \E i \in 1..Len(Priority) : Occurs(Priority[i], text)
    THEN Priority[CHOOSE i \in 1..Len(Priority) :
                      /\ Occurs(Priority[i], text)
                      /\ \A h \in 1..(i - 1) : ~Occurs(Priority[h], text)]
    ELSE "applications_sent"

\* C9: the result is the earliest category, in the order applications_sent,
\* rejected, interview_scheduled, offer_received, that has a keyword occurring
\* in the lowercased "subject content"; applications_sent when none has.
C9_FirstMatchInPriorityOrder ==
    cls.category # "none"
        => cls.category = EarliestCategory(lower(cls.subject \o " " \o cls.snippet))

\* A text with keywords of two categories was given the earlier one, not the default.
C9_Witness ==
    /\ cls.category = "rejected"
    /\ Occurs("offer_received", lower(cls.subject \o " " \o cls.snippet))

-----------------------------------------------------------------------------
(* Properties of the data endpoints on mailboxes (SpecFetch) *)

\* The sender's address has domain d: "@" and d, in any case, end the address.
SenderAt(from_email, d) ==
    \E i \in occurrences("@" \o d, lower(from_email)) :
        LET next == i + Len(d) + 1
        IN next > Len(from_email) \/ SubSeq(from_email, next, next) = ">"

\* The company the three steps give: the domain's first label, capitalized,
\* unless the domain is an excluded one; else the subject up to " - "; else None.
ThreeSteps(from_email, subject) ==
    LET domain == split_head(split_rest(from_email, "@"), "@")
    IN IF occurrences("@", from_email) # {} /\ domain \notin EXCLUDED_DOMAINS
       THEN Company(title(split_head(domain, ".")))
       ELSE IF occurrences(" - ", subject) # {}
            THEN Company(strip(split_head(subject, " - ")))
            ELSE None

\* C11: the company of a returned message is what the three steps give for its
\* From and Subject values (domain's first label unless the domain is an
\* excluded consumer provider, else the subject before " - ", else None), and a
\* sender at an excluded provider never gets that provider's name as company.
C11_ExtractCompanySteps ==
    (response.op = "get_email_detail" /\ response.status = 200) =>
        LET msg == response.call.message
        IN /\ response.body.company = ThreeSteps(msg.from_email, msg.subject)
           /\ \A d \in EXCLUDED_DOMAINS :
                SenderAt(msg.from_email, d) =>
                    response.body.company # Company(title(split_head(d, ".")))

Categories == {"applications_sent", "rejected", "interview_scheduled", "offer_received"}

\* The count a statistics record reports for a category.
Reported(stats, c) ==
    CASE c = "applications_sent" -> stats.applications_sent
      [] c = "rejected" -> stats.rejected
      [] c = "interview_scheduled" -> stats.interview_scheduled
      [] c = "offer_received" -> stats.offer_received

NumberOf(emails, c) == Cardinality({i \in 1..Len(emails) : emails[i].category = c})

CountsMatch(stats, emails) ==
    /\ \A c \in Categories : Reported(stats, c) = NumberOf(emails, c)
    /\ stats.total_applications = Len(emails)
    /\ stats.total_applications =
          stats.applications_sent + stats.rejected
              + stats.interview_scheduled + stats.offer_received
    /\ emails = << >> =>
          /\ stats.total_applications = 0
          /\ \A c \in Categories : Reported(stats, c) = 0

\* C12: the statistics of /dashboard/stats, and those generate_demo_stats computes,
\* report each of the four categories with the number of classified records of
\* that category (zero when there is none), and a total that is the number of
\* records and the sum of the four counts; no record, all zero.
C12_CountsPerCategory ==
    (response.op = "get_dashboard_stats" /\ response.status = 200) =>
        /\ CountsMatch(response.body, response.fetch.emails)
        /\ CountsMatch(generate_demo_stats(response.fetch.emails), response.fetch.emails)

\* Statistics over several records, with a category counted twice or more and
\* another one not occurring.
C12_Witness ==
    /\ response.op = "get_dashboard_stats"
    /\ response.status = 200
    /\ Len(response.fetch.emails) >= 2
    /\ \E c, d \in Categories :
          /\ Reported(response.body, c) >= 2
          /\ Reported(response.body, d) = 0
          /\ d \notin DOMAIN response.body.categories

\* The messages the provider listed for the request of the last response.
Listed(r) ==
    SubSeq(r.call.mailbox, 1, Min(Len(r.call.mailbox), r.fetch.maxResults))

IsGood(msg) == msg.fault = "none"

\* C13: when the provider answers and exactly one of the n listed messages cannot
\* be read, /emails and /dashboard/stats still answer 200, with the n - 1 other
\* messages classified and returned (counted).
C13_BadMessageDoesNotAbort ==
    (response.op \in {"get_emails", "get_dashboard_stats"} /\ response.answered) =>
        LET good == SelectSeq(Listed(response), IsGood)
        IN Len(good) = Len(Listed(response)) - 1 =>
              /\ response.status = 200
              /\ response.op = "get_dashboard_stats" =>
                    response.body.total_applications = Len(good)
              /\ (/\ response.op = "get_emails"
                  /\ ~truthy(response.call.category)
                  /\ ~truthy(response.call.company)) =>
                    /\ Len(response.body.emails) = Len(good)
                    /\ \A i \in 1..Len(good) :
                          response.body.emails[i].category =
                              categorize_email(good[i].subject, good[i].snippet)

ContainsIgnoringCase(text, part) == occurrences(lower(part), lower(text)) # {}

\* The records to return when a filter applies as soon as its parameter is given.
FilteredWhenGiven(emails, category, company) ==
    LET keep(e) ==
            /\ category # None => e.category = category.value
            /\ company # None =>
                  /\ e.company # None
                  /\ ContainsIgnoringCase(e.company.value, company.value)
    IN SelectSeq(emails, keep)

\* The records to return when a filter applies for a parameter that is given and
\* not empty.
FilteredWhenNonEmpty(emails, category, company) ==
    LET keep(e) ==
            /\ truthy(category) => e.category = category.value
            /\ truthy(company) =>
                  /\ e.company # None
                  /\ ContainsIgnoringCase(e.company.value, company.value)
    IN SelectSeq(emails, keep)

\* C14 as stated: /emails returns, in fetch order, exactly the fetched records
\* whose category equals the category parameter when one is given and whose
\* company is not null and contains the company parameter, ignoring case, when
\* one is given; a record without company is never returned under a company
\* parameter.
C14_FilterWhenGiven ==
    (response.op = "get_emails" /\ response.status = 200) =>
        /\ response.body.emails =
              FilteredWhenGiven(response.fetch.emails, response.call.category,
                                response.call.company)
        /\ response.call.company # None =>
              \A i \in 1..Len(response.body.emails) : response.body.emails[i].company # None

\* C14 amended: the same with "given" read as "given and not empty": an empty
\* category or company parameter filters nothing.
C14_FilterWhenNonEmpty ==
    (response.op = "get_emails" /\ response.status = 200) =>
        /\ response.body.emails =
              FilteredWhenNonEmpty(response.fetch.emails, response.call.category,
                                   response.call.company)
        /\ truthy(response.call.company) =>
              \A i \in 1..Len(response.body.emails) : response.body.emails[i].company # None
        /\ (~truthy(response.call.category) /\ ~truthy(response.call.company)) =>
              response.body.emails = response.fetch.emails

\* A company filter that matches a record in another case than the record's,
\* while a record without company was fetched too and is left out.
C14_Witness ==
    /\ response.op = "get_emails"
    /\ response.status = 200
    /\ truthy(response.call.company)
    /\ \E i \in 1..Len(response.fetch.emails) : response.fetch.emails[i].company = None
    /\ Len(response.body.emails) = 1
    /\ occurrences(response.call.company.value, response.body.emails[1].company.value) = {}

-----------------------------------------------------------------------------
(* Properties of the OAuth callback (SpecIdentity) *)

\* The positions of a call among the steps of a callback.
StepsOf(steps, call) == {i \in 1..Len(steps) : steps[i].call = call}

Before(steps, first, second) ==
    /\ StepsOf(steps, first) # {}
    /\ StepsOf(steps, second) # {}
    /\ \A i \in StepsOf(steps, first), j \in StepsOf(steps, second) : i < j

\* C15: after a successful /auth/callback the bundle and the mapping have been
\* written, both before the session token was minted, and one user_id is the
\* bundle's key, the mapping's id, the token's user_id and the redirect's
\* user_id; after a failed exchange the response is an error and no write and
\* no cookie was made.
C15_WritesThenTokenOneUserId ==
    /\ (response.op = "auth_callback" /\ response.status = 307) =>
          /\ Before(response.steps, "save_user_token_db", "create_user_token")
          /\ Before(response.steps, "save_user_email_mapping", "create_user_token")
          /\ \A i \in 1..Len(response.steps) : response.steps[i].user_id = response.user_id
          /\ cookie.user_id = response.user_id
          /\ \/ db_user_tokens[response.user_id] = json_dumps(last_saved[response.user_id])
             \/ user_tokens[response.user_id] = last_saved[response.user_id]
          /\ [user_id |-> response.user_id, email |-> response.email] \in db_user_emails
    /\ (response.op = "auth_callback" /\ ~response.exchange_ok) =>
          /\ response.status = 500
          /\ response.steps = << >>

-----------------------------------------------------------------------------
(* Properties of logout (SpecSession) *)

\* The browser was told to drop the cookie and no login followed; the client
\* still holds the token of its last login.
LoggedOut == cookie = None /\ held # None

\* C16: a token presented again after /auth/logout, as cookie or as Bearer
\* header, before its expiry, is accepted by /auth/session with the identity it
\* was issued for; and a logout step leaves the credential store and the
\* identity mapping as they were.
C16_LogoutDoesNotRevoke ==
    /\ [](( /\ response.op = "check_session"
            /\ LoggedOut
            /\ SentToken(response.sent.request) = held
            /\ ~InvalidToken(held, response.sent.at, response.sent.strict))
           => /\ response.status = 200
              /\ response.authenticated
              /\ response.user_id = held_issue.user_id
              /\ response.email = held_issue.email)
    /\ [][response'.op = "logout"
            => UNCHANGED <<db_user_tokens, user_tokens, db_user_emails>>]_vars

\* After a logout, /auth/session has accepted the token from a Bearer header
\* while bundles and mapping of the user are still stored.
C16_Witness ==
    /\ response.op = "check_session"
    /\ LoggedOut
    /\ response.sent.request.cookie = None
    /\ SentToken(response.sent.request) = held
    /\ response.status = 200
    /\ response.authenticated
    /\ db_user_tokens[held_issue.user_id] # None
    /\ \E r \in db_user_emails : r.user_id = held_issue.user_id

-----------------------------------------------------------------------------
(* Properties of the listing cap (SpecFetch) *)

====
